---- MODULE Spec2Model ----
(***************************************************************************)
(* A model of slurmssh (src/slurmssh.py): the SlurmSSH class and the       *)
(* command-line entry point main().                                        *)
(*                                                                         *)
(* Text.  A Python str is modelled as a sequence of lexemes.  A lexeme is  *)
(* an indivisible run of characters written as a TLA+ string; the lexemes  *)
(* " " and "\n" are the whitespace characters, "/" is the path separator,  *)
(* "@" the connection-string separator.  The lexeme alphabets used below   *)
(* are uniquely decodable, so two texts are equal as Python strings iff    *)
(* they are equal as lexeme sequences, and substring search, strip() and   *)
(* split() on lexemes agree with the character-level operations.  Only     *)
(* fixed blocks that the program writes and never inspects (the directive  *)
(* lines of a generated script, a tool's error text) are single lexemes.   *)
(*                                                                         *)
(* Values.  A Python value that may be a str, an int, None or an exception *)
(* is a record [t |-> type tag, s |-> text].                               *)
(***************************************************************************)
EXTENDS Integers, Sequences, FiniteSets, TLC

VARIABLES
    pc,         \* position of the running call
    entry,      \* which entry point the caller invoked
    args,       \* the parsed command line / the call's arguments
    fs,         \* the local file system as far as the program reads and writes it
    self,       \* the SlurmSSH object (fields set by __init__)
    calls,      \* the external commands issued so far, each with its CompletedProcess
    exc,        \* the exception propagating out of the current frame (or NoneV)
    ret,        \* the value returned to the caller of the entry point (or NoneV)
    out,        \* messages printed to the standard output stream
    err,        \* messages printed to the standard error stream
    exit_code   \* the process exit status once main() has ended, -1 before

vars == <<pc, entry, args, fs, self, calls, exc, ret, out, err, exit_code>>

----------------------------------------------------------------------------
(* Bounds of the model *)

MaxExclude == 2     \* longest caller-supplied exclusion list
MaxArgs == 2        \* longest list of extra arguments
MaxStdout == 6      \* longest submission stdout, in lexemes
MaxGenerate == 2    \* number of times the generator is run in a row

----------------------------------------------------------------------------
(* Python values *)

Val(t, s) == [t |-> t, s |-> s]
NoneV == Val("None", <<>>)
StrV(s) == Val("str", s)
IntV(s) == Val("int", s)
RuntimeError(msg) == Val("RuntimeError", msg)

\* str(v) as an f-string renders it
Format(v) == IF v.t = "None" THEN <<"None">> ELSE v.s

----------------------------------------------------------------------------
(* Python str operations on texts *)

Whitespace == {" ", "\n"}

SeqsUpTo(S, n) == UNION {[1..k -> S] : k \in 0..n}

RECURSIVE LStrip(_)
LStrip(t) ==
    IF t = <<>> THEN <<>>
    ELSE IF Head(t) \in Whitespace THEN LStrip(Tail(t)) ELSE t

RECURSIVE RStrip(_)
RStrip(t) ==
    IF t = <<>> THEN <<>>
    ELSE IF t[Len(t)] \in Whitespace THEN RStrip(SubSeq(t, 1, Len(t) - 1)) ELSE t

\* str.strip()
Strip(t) == RStrip(LStrip(t))

\* str.split(): the maximal runs of non-whitespace, in order
RECURSIVE SplitFrom(_, _, _)
SplitFrom(t, cur, acc) ==
    IF t = <<>> THEN (IF cur = <<>> THEN acc ELSE Append(acc, cur))
    ELSE IF Head(t) \in Whitespace
         THEN SplitFrom(Tail(t), <<>>, IF cur = <<>> THEN acc ELSE Append(acc, cur))
         ELSE SplitFrom(Tail(t), Append(cur, Head(t)), acc)

Split(t) == SplitFrom(t, <<>>, <<>>)

\* needle in t
Contains(t, needle) ==
    \E i \in 0..(Len(t) - Len(needle)) : SubSeq(t, i + 1, i + Len(needle)) = needle

\* sep.join(parts)
RECURSIVE Join(_, _)
Join(parts, sep) ==
    IF parts = <<>> THEN <<>>
    ELSE IF Len(parts) = 1 THEN parts[1]
    ELSE parts[1] \o sep \o Join(Tail(parts), sep)

\* the words of a literal, single spaces between them
Words(ws) == Join([i \in 1..Len(ws) |-> <<ws[i]>>], <<" ">>)

\* str.split(sep, 1) for a one-lexeme separator that occurs in t
SplitOnce(t, sep) ==
    LET i == CHOOSE k \in 1..Len(t) : t[k] = sep /\ \A j \in 1..(k - 1) : t[j] # sep
    IN  <<SubSeq(t, 1, i - 1), SubSeq(t, i + 1, Len(t))>>

----------------------------------------------------------------------------
(* pathlib.Path: [root |-> is absolute, parts |-> the components] *)

\* the components between separators, empty ones included
RECURSIVE Components(_, _, _)
Components(t, cur, acc) ==
    IF t = <<>> THEN Append(acc, cur)
    ELSE IF Head(t) = "/" THEN Components(Tail(t), <<>>, Append(acc, cur))
         ELSE Components(Tail(t), Append(cur, Head(t)), acc)

\* Path(text): empty and "." components are dropped
Path(t) ==
    [root  |-> t # <<>> /\ Head(t) = "/",
     parts |-> SelectSeq(Components(t, <<>>, <<>>), LAMBDA c : c # <<>> /\ c # <<".">>)]

PathName(p) == IF p.parts = <<>> THEN <<>> ELSE p.parts[Len(p.parts)]

PathParent(p) ==
    IF p.parts = <<>> THEN p
    ELSE [root |-> p.root, parts |-> SubSeq(p.parts, 1, Len(p.parts) - 1)]

\* a lexeme that spells a dot followed by an extension
DotLexemes == {".py", ".slurm", ".lock"}

\* index of the last dot of a file name, 0 when it has none or only a leading one
LastDot(name) ==
    LET dots == {i \in 2..Len(name) : name[i] \in DotLexemes}
    IN  IF dots = {} THEN 0 ELSE CHOOSE i \in dots : \A j \in dots : j <= i

PathSuffix(p) ==
    LET name == PathName(p)
    IN  IF LastDot(name) = 0 THEN <<>> ELSE SubSeq(name, LastDot(name), Len(name))

PathStem(p) ==
    LET name == PathName(p)
    IN  IF LastDot(name) = 0 THEN name ELSE SubSeq(name, 1, LastDot(name) - 1)

\* p / name
PathJoin(p, t) ==
    IF Path(t).root THEN Path(t)
    ELSE [root |-> p.root, parts |-> p.parts \o Path(t).parts]

\* str(p)
PathStr(p) ==
    IF p.parts = <<>> THEN (IF p.root THEN <<"/">> ELSE <<".">>)
    ELSE (IF p.root THEN <<"/">> ELSE <<>>) \o Join(p.parts, <<"/">>)

----------------------------------------------------------------------------
(* pyproject.toml as toml.load sees it.                                    *)
(* A manifest is [state |-> "absent" | "unreadable" | "unparseable" |      *)
(* "parsed", config |-> the parsed document].  A document maps its         *)
(* top-level keys to entries [t, s, d]: a table (d maps its keys to        *)
(* values), a string (s) or an integer (s is its decimal rendering).       *)

TableE(d) == [t |-> "table", s |-> <<>>, d |-> d]
StrE(s) == [t |-> "str", s |-> s, d |-> <<>>]
IntE(s) == [t |-> "int", s |-> s, d |-> <<>>]
NoKeys == [k \in {} |-> NoneV]

Manifest(state, config) == [state |-> state, config |-> config]
NoConfig == [k \in {} |-> TableE(NoKeys)]

\* key in entry: dict membership, substring of a str, TypeError on an int
KeyIn(key, e) ==
    IF e.t = "table" THEN [ok |-> TRUE, v |-> key \in DOMAIN e.d]
    ELSE IF e.t = "str" THEN [ok |-> TRUE, v |-> Contains(e.s, <<key>>)]
    ELSE [ok |-> FALSE, v |-> FALSE]

\* entry[key]: TypeError unless the entry is a table
GetItem(e, key) ==
    IF e.t = "table" THEN [ok |-> TRUE, v |-> e.d[key]]
    ELSE [ok |-> FALSE, v |-> NoneV]

\* the try block of _get_project_name: the value it returns, if it returns
ManifestProjectName(m) ==
    LET miss == [found |-> FALSE, v |-> NoneV]
    IN  IF m.state # "parsed" THEN miss
        ELSE IF "project" \notin DOMAIN m.config THEN miss
        ELSE LET has == KeyIn("name", m.config["project"])
             IN  IF ~has.ok \/ ~has.v THEN miss
                 ELSE LET item == GetItem(m.config["project"], "name")
                      IN  IF item.ok THEN [found |-> TRUE, v |-> item.v] ELSE miss

\* a variant that prefers the launch script's directory to the manifest
GetProjectName_parentfirst(files, launch_script_path) ==
    LET m == ManifestProjectName(files.manifest)
        script_path == Path(launch_script_path)
    IN  IF PathParent(script_path) # Path(<<".">>)
        THEN StrV(PathName(PathParent(script_path)))
        ELSE IF m.found THEN m.v
        ELSE StrV(files.cwd)

\* SlurmSSH._get_project_name
GetProjectName(files, launch_script_path) ==
    LET m == ManifestProjectName(files.manifest)
        script_path == Path(launch_script_path)
    IN  IF m.found THEN m.v
        ELSE IF PathParent(script_path) # Path(<<".">>)
             THEN StrV(PathName(PathParent(script_path)))
             ELSE StrV(files.cwd)

\* SlurmSSH.__init__
NoObject == [host |-> <<>>, username |-> <<>>, launch_script_path |-> <<>>,
             project_name |-> NoneV, remote_dir |-> <<>>]

SlurmSSH(files, host, username, launch_script_path) ==
    LET project_name == GetProjectName(files, launch_script_path)
    IN  [host |-> host, username |-> username,
         launch_script_path |-> launch_script_path,
         project_name |-> project_name,
         remote_dir |-> <<"~/slurmssh/">> \o Format(project_name) \o <<"/">>]

----------------------------------------------------------------------------
(* Optional list arguments: a list, or None *)

ListV(l) == [t |-> "list", l |-> l]
NoneL == [t |-> "None", l |-> <<>>]

\* x or []
OrEmpty(x) == IF x.t = "None" THEN <<>> ELSE x.l

\* the truth value of x
Truthy(x) == x.t = "list" /\ x.l # <<>>

----------------------------------------------------------------------------
(* SlurmSSH._uses_uv and SlurmSSH._generate_slurm_script *)

UsesUv(files) ==
    IF files.uv_lock THEN TRUE
    ELSE LET m == files.manifest
         IN  IF m.state # "parsed" THEN FALSE
             ELSE IF "tool" \notin DOMAIN m.config THEN FALSE
             ELSE LET has == KeyIn("uv", m.config["tool"])
                  IN  has.ok /\ has.v

\* a variant that opens the file for appending
WriteFile_append(written, path, content) ==
    [p \in (DOMAIN written) \cup {path} |->
        IF p = path
        THEN (IF path \in DOMAIN written THEN written[path] ELSE <<>>) \o content
        ELSE written[p]]

\* open(path, "w").write(content): the file is created or truncated
WriteFile(written, path, content) ==
    [p \in (DOMAIN written) \cup {path} |-> IF p = path THEN content ELSE written[p]]

PythonCmd(files) == IF UsesUv(files) THEN <<"uv", " ", "run">> ELSE <<"python">>

FullCommand(files, python_script, script_args) ==
    LET cmd_parts == <<PythonCmd(files), python_script>>
                        \o (IF Truthy(script_args) THEN script_args.l ELSE <<>>)
    IN  Join(cmd_parts, <<" ">>)

SlurmContent(files, python_script, script_args) ==
    <<"#!/bin/bash", "\n", "#SBATCH --job-name=">> \o PathStem(Path(python_script))
    \o <<"\n", "#SBATCH resource directives", "\n", "\n",
         "echo job metadata", "\n", "\n",
         "echo \"Running Python script: ">> \o python_script \o <<"\"", "\n">>
    \o FullCommand(files, python_script, script_args)
    \o <<"\n", "\n", "echo \"Job completed at: $(date)\"", "\n">>

SlurmPath(python_script, output_dir) ==
    PathJoin(Path(output_dir), PathStem(Path(python_script)) \o <<".slurm">>)

\* the outcome of _generate_slurm_script: the files after it, what it returns
\* or raises, and what it prints
GenerateSlurmScript(files, python_script, script_args, output_dir) ==
    LET slurm_path == PathStr(SlurmPath(python_script, output_dir))
    IN  IF ~files.writable
        THEN [files |-> files, ret |-> NoneV,
              exc |-> Val("OSError", slurm_path), out |-> <<>>]
        ELSE [files |-> [files EXCEPT !.written =
                            WriteFile(@, slurm_path,
                                      SlurmContent(files, python_script, script_args))],
              ret |-> StrV(slurm_path), exc |-> NoneV,
              out |-> <<(Words(<<"Generated", "SLURM", "script:">>) \o <<" ">>) \o slurm_path>>]

----------------------------------------------------------------------------
(* The external commands *)

Target(obj) == obj.username \o <<"@">> \o obj.host

\* SlurmSSH._run_ssh_command: the argument vector handed to subprocess.run
SshCmd(obj, command) == << <<"ssh">>, Target(obj), command >>

MkdirCmd(obj) == Words(<<"mkdir", "-p">>) \o <<" ">> \o obj.remote_dir

DefaultExcludes ==
    << <<".git/">>, <<"__pycache__/">>, <<"*.pyc">>, <<".DS_Store">>,
       <<".vscode/">>, <<".idea/">>, <<".venv/">> >>

\* a variant that drops caller patterns the defaults already have
AllExcludes_dedup(exclude) ==
    DefaultExcludes
    \o SelectSeq(OrEmpty(exclude),
                 LAMBDA x : \A k \in 1..Len(DefaultExcludes) : DefaultExcludes[k] # x)

AllExcludes(exclude) == DefaultExcludes \o OrEmpty(exclude)

RECURSIVE ExcludeArgs(_)
ExcludeArgs(patterns) ==
    IF patterns = <<>> THEN <<>>
    ELSE << <<"--exclude">>, Head(patterns) >> \o ExcludeArgs(Tail(patterns))

RsyncCmd(obj, exclude) ==
    << <<"rsync">>, <<"-avz">>, <<"--delete">> >>
    \o ExcludeArgs(AllExcludes(exclude))
    \o << <<"./">>, Target(obj) \o <<":">> \o obj.remote_dir >>

SbatchCmdParts(obj, script_args) ==
    << <<"cd">>, obj.remote_dir, <<"&&">>, <<"sbatch">>, obj.launch_script_path >>
    \o (IF Truthy(script_args) THEN script_args.l ELSE <<>>)

SbatchCmd(obj, script_args) == Join(SbatchCmdParts(obj, script_args), <<" ">>)

Marker == <<"Submitted batch", " ", "job">>

\* a variant that takes the first token of the output
ParseJobId_firsttoken(stdout) ==
    LET output == Strip(stdout)
    IN  IF Contains(output, Marker)
        THEN [ok |-> TRUE, job_id |-> Split(output)[1], exc |-> NoneV]
        ELSE [ok |-> FALSE, job_id |-> <<>>,
              exc |-> RuntimeError((Words(<<"Unexpected", "sbatch", "output:">>) \o <<" ">>)
                                    \o output)]

\* a variant that reports the stdout as it came
ParseJobId_rawmessage(stdout) ==
    LET output == Strip(stdout)
    IN  IF Contains(output, Marker)
        THEN [ok |-> TRUE, job_id |-> Split(output)[Len(Split(output))], exc |-> NoneV]
        ELSE [ok |-> FALSE, job_id |-> <<>>,
              exc |-> RuntimeError((Words(<<"Unexpected", "sbatch", "output:">>) \o <<" ">>)
                                    \o stdout)]

\* lines 177-184 of _submit_job: the job id, or the error raised
ParseJobId(stdout) ==
    LET output == Strip(stdout)
    IN  IF Contains(output, Marker)
        THEN [ok |-> TRUE, job_id |-> Split(output)[Len(Split(output))], exc |-> NoneV]
        ELSE [ok |-> FALSE, job_id |-> <<>>,
              exc |-> RuntimeError((Words(<<"Unexpected", "sbatch", "output:">>) \o <<" ">>) \o output)]

\* a variant that ignores the exit code
Failed_never(result) == FALSE

\* does the caller see the command as failed
Failed(result) == result.returncode # 0

Call(argv, result) ==
    [argv |-> argv, returncode |-> result.returncode,
     stdout |-> result.stdout, stderr |-> result.stderr]

----------------------------------------------------------------------------
(* The inputs the model draws from *)

SshStrings ==
    { <<"user", "@", "host">>, <<"userhost">>, <<"@", "host">>, <<"user", "@">> }

ScriptPaths ==
    { <<"job", ".slurm">>, <<"train", ".py">>,
      <<"sub", "/", "job", ".slurm">>, <<"sub", "/", "train", ".py">>,
      <<".", "/", "job", ".slurm">>, <<"/", "job", ".slurm">> }

Patterns == { <<"*.log">>, <<"data/">>, <<".git/">> }

ExtraArgs == { <<"--epochs">>, <<"100">> }

OutputDirs == { <<".">>, <<"out">>, <<"out", "/">> }

Cwds == { <<"work">>, <<>> }

ProjectTables ==
    { NoKeys,
      "name" :> StrV(<<"proj">>),
      "name" :> StrV(<<>>),
      "name" :> IntV(<<"42">>) }

Manifests ==
    { Manifest("absent", NoConfig), Manifest("unreadable", NoConfig),
      Manifest("unparseable", NoConfig), Manifest("parsed", NoConfig) }
    \cup { Manifest("parsed", "project" :> TableE(d)) : d \in ProjectTables }
    \cup { Manifest("parsed", "project" :> StrE(<<"my", "name">>)),
           Manifest("parsed", "project" :> IntE(<<"7">>)),
           Manifest("parsed", "tool" :> TableE("uv" :> NoneV)),
           Manifest("parsed", "tool" :> TableE(NoKeys)),
           Manifest("parsed", ("project" :> TableE("name" :> StrV(<<"proj">>)))
                               @@ ("tool" :> TableE("uv" :> NoneV))) }

MainManifests ==
    { Manifest("absent", NoConfig),
      Manifest("parsed", "project" :> TableE("name" :> StrV(<<"proj">>))),
      Manifest("parsed", "tool" :> TableE("uv" :> NoneV)) }

NoFiles == [p \in {} |-> <<>>]

Files(script_exists, manifest, uv_lock, cwd, writable) ==
    [script_exists |-> script_exists, manifest |-> manifest, uv_lock |-> uv_lock,
     cwd |-> cwd, writable |-> writable, written |-> NoFiles]

Args(ssh, script, exclude, script_args, output_dir) ==
    [ssh |-> ssh, script |-> script, exclude |-> exclude,
     script_args |-> script_args, output_dir |-> output_dir]

OptionalLists(S, n) == {NoneL} \cup {ListV(l) : l \in SeqsUpTo(S, n)}

Stderrs == { <<>>, <<"sbatch: error: Invalid partition name">> }

StdoutLexemes == {"Submitted batch", " ", "job", "\n", "12345"}

Acknowledgement == <<"Submitted batch", " ", "job", " ", "12345", "\n">>

\* what the submission prints, by entry point: every short text when
\* _submit_job is called directly, three typical ones otherwise
SbatchStdouts ==
    IF entry = "_submit_job" THEN SeqsUpTo(StdoutLexemes, MaxStdout)
    ELSE { Acknowledgement, <<"job", "\n">>, <<>> }

\* subprocess.CompletedProcess
Results(stdouts) ==
    [returncode : {0, 1}, stdout : stdouts, stderr : Stderrs]

----------------------------------------------------------------------------
(* SlurmSSH._sync_code, lines 131-135: create the remote directory *)

sync_mkdir ==
    /\ pc = "mkdir"
    /\ \E result \in Results({<<>>}) :
        /\ calls' = Append(calls, Call(SshCmd(self, MkdirCmd(self)), result))
        /\ IF Failed(result)
           THEN /\ exc' = RuntimeError((Words(<<"Failed", "to", "create", "remote", "directory:">>) \o <<" ">>)
                                        \o result.stderr)
                /\ pc' = "submit_except"
           ELSE /\ exc' = exc
                /\ pc' = "rsync"
    /\ UNCHANGED <<entry, args, fs, self, ret, out, err, exit_code>>

(* SlurmSSH._sync_code, lines 137-161: mirror the current directory *)

sync_rsync ==
    /\ pc = "rsync"
    /\ \E result \in Results({<<>>}) :
        /\ calls' = Append(calls, Call(RsyncCmd(self, args.exclude), result))
        /\ IF Failed(result)
           THEN /\ exc' = RuntimeError((Words(<<"Failed", "to", "sync", "code:">>) \o <<" ">>) \o result.stderr)
                /\ pc' = "submit_except"
                /\ out' = out
           ELSE /\ exc' = exc
                /\ pc' = "sbatch"
                /\ out' = Append(out, (Words(<<"Code", "synced", "to">>) \o <<" ">>) \o self.host \o <<":">>
                                        \o self.remote_dir)
    /\ UNCHANGED <<entry, args, fs, self, ret, err, exit_code>>

(* SlurmSSH._submit_job, lines 163-184 *)

\* a variant that looks for the acknowledgement before the exit code
SubmitOutcome_parsefirst(result) ==
    IF ParseJobId(result.stdout).ok THEN ParseJobId(result.stdout)
    ELSE IF Failed(result)
    THEN [ok |-> FALSE, job_id |-> <<>>,
          exc |-> RuntimeError((Words(<<"Failed", "to", "submit", "job:">>) \o <<" ">>)
                                \o result.stderr)]
    ELSE ParseJobId(result.stdout)

\* what _submit_job makes of the command's result
SubmitOutcome(result) ==
    IF Failed(result)
    THEN [ok |-> FALSE, job_id |-> <<>>,
          exc |-> RuntimeError((Words(<<"Failed", "to", "submit", "job:">>) \o <<" ">>) \o result.stderr)]
    ELSE ParseJobId(result.stdout)

\* a variant that submits a second time when the first submission failed
submit_job_retry ==
    /\ pc = "sbatch"
    /\ \E result \in Results(SbatchStdouts) :
        LET outcome == SubmitOutcome(result)
            again == ~outcome.ok /\ Len(calls) < 3
        IN  /\ calls' = Append(calls, Call(SshCmd(self, SbatchCmd(self, args.script_args)),
                                           result))
            /\ IF outcome.ok
               THEN /\ out' = Append(out, (Words(<<"Job", "submitted", "with", "ID:">>)
                                            \o <<" ">>) \o outcome.job_id)
                    /\ exc' = exc
                    /\ ret' = IF entry = "_submit_job" THEN StrV(outcome.job_id) ELSE ret
                    /\ pc' = IF entry = "main" THEN "main_return" ELSE "done"
               ELSE /\ out' = out
                    /\ exc' = IF again THEN exc ELSE outcome.exc
                    /\ ret' = ret
                    /\ pc' = IF again THEN "sbatch"
                             ELSE IF entry = "_submit_job" THEN "done" ELSE "submit_except"
    /\ UNCHANGED <<entry, args, fs, self, err, exit_code>>

submit_job ==
    /\ pc = "sbatch"
    /\ \E result \in Results(SbatchStdouts) :
        LET outcome == SubmitOutcome(result)
        IN  /\ calls' = Append(calls, Call(SshCmd(self, SbatchCmd(self, args.script_args)),
                                           result))
            /\ IF outcome.ok
               THEN /\ out' = Append(out, (Words(<<"Job", "submitted", "with", "ID:">>) \o <<" ">>) \o outcome.job_id)
                    /\ exc' = exc
                    /\ ret' = IF entry = "_submit_job" THEN StrV(outcome.job_id) ELSE ret
                    /\ pc' = IF entry = "main" THEN "main_return" ELSE "done"
               ELSE /\ out' = out
                    /\ exc' = outcome.exc
                    /\ ret' = ret
                    /\ pc' = IF entry = "_submit_job" THEN "done" ELSE "submit_except"
    /\ UNCHANGED <<entry, args, fs, self, err, exit_code>>

\* a variant that prints the error and does not raise it again
submit_except_swallow ==
    /\ pc = "submit_except"
    /\ out' = Append(out, <<"Error:", " ">> \o Format(exc))
    /\ exc' = NoneV
    /\ pc' = IF entry = "main" THEN "main_return" ELSE "done"
    /\ UNCHANGED <<entry, args, fs, self, calls, ret, err, exit_code>>

(* SlurmSSH.submit, lines 198-200: print the error and raise it again *)

submit_except ==
    /\ pc = "submit_except"
    /\ out' = Append(out, <<"Error:", " ">> \o Format(exc))
    /\ pc' = IF entry = "main" THEN "main_except" ELSE "done"
    /\ UNCHANGED <<entry, args, fs, self, calls, exc, ret, err, exit_code>>

----------------------------------------------------------------------------
(* main *)

HasAt(ssh) == Contains(ssh, <<"@">>)
Username(ssh) == SplitOnce(ssh, "@")[1]
Host(ssh) == SplitOnce(ssh, "@")[2]

\* a variant that skips the existence check
ScriptMissing_never(files) == FALSE

ScriptMissing(files) == ~files.script_exists

\* lines 242-252: the two checks made before anything else
main_parse ==
    /\ pc = "main"
    /\ IF ~HasAt(args.ssh)
       THEN /\ err' = Append(err, Words(<<"Error:", "SSH", "connection", "must", "be", "in", "format", "username@hostname">>))
            /\ exit_code' = 1
            /\ pc' = "exit"
       ELSE IF ScriptMissing(fs)
       THEN /\ err' = Append(err, Words(<<"Error:", "Script", "file", "'">>) \o args.script
                                    \o Words(<<"'", "not", "found">>))
            /\ exit_code' = 1
            /\ pc' = "exit"
       ELSE /\ err' = err
            /\ exit_code' = exit_code
            /\ pc' = "main_script"
    /\ UNCHANGED <<entry, args, fs, self, calls, exc, ret, out>>

\* lines 256-260 and 264-271: a Python script gets a generated batch script,
\* which becomes the launch script; then submit() is entered
main_python_script ==
    /\ pc = "main_script"
    /\ PathSuffix(Path(args.script)) = <<".py">>
    /\ LET temp_slurm == SlurmSSH(fs, Host(args.ssh), Username(args.ssh), args.script)
           gen == GenerateSlurmScript(fs, args.script, args.script_args, <<".">>)
           detected == (Words(<<"Python", "script", "detected:">>) \o <<" ">>) \o args.script
       IN  IF gen.exc # NoneV
           THEN \* the write failed outside the try block: traceback, status 1
                /\ exc' = gen.exc
                /\ err' = Append(err, <<"Traceback:", " ">> \o Format(gen.exc))
                /\ out' = Append(out, detected)
                /\ exit_code' = 1
                /\ pc' = "exit"
                /\ UNCHANGED <<fs, self>>
           ELSE /\ fs' = gen.files
                /\ out' = Append(out, detected) \o gen.out
                /\ self' = SlurmSSH(gen.files, Host(args.ssh), Username(args.ssh), gen.ret.s)
                /\ pc' = "mkdir"
                /\ UNCHANGED <<exc, err, exit_code>>
    /\ UNCHANGED <<entry, args, calls, ret>>

\* lines 261-271: any other script is the launch script itself
main_slurm_script ==
    /\ pc = "main_script"
    /\ PathSuffix(Path(args.script)) # <<".py">>
    /\ self' = SlurmSSH(fs, Host(args.ssh), Username(args.ssh), args.script)
    /\ pc' = "mkdir"
    /\ UNCHANGED <<entry, args, fs, calls, exc, ret, out, err, exit_code>>

\* lines 273-275: report the error and exit with status 1
main_except ==
    /\ pc = "main_except"
    /\ err' = Append(err, <<"Error:", " ">> \o Format(exc))
    /\ exit_code' = 1
    /\ pc' = "exit"
    /\ UNCHANGED <<entry, args, fs, self, calls, exc, ret, out>>

\* submit() returned: main() ends and the process exits with status 0
main_return ==
    /\ pc = "main_return"
    /\ exit_code' = 0
    /\ pc' = "exit"
    /\ UNCHANGED <<entry, args, fs, self, calls, exc, ret, out, err>>

----------------------------------------------------------------------------
(* Library calls of single methods *)

\* SlurmSSH(...) : __init__ resolves the project name
get_project_name ==
    /\ pc = "get_project_name"
    /\ self' = SlurmSSH(fs, Host(args.ssh), Username(args.ssh), args.script)
    /\ ret' = GetProjectName(fs, args.script)
    /\ pc' = "done"
    /\ UNCHANGED <<entry, args, fs, calls, exc, out, err, exit_code>>

\* one call of _generate_slurm_script(script, script_args, output_dir)
generate_slurm_script ==
    /\ pc = "generate"
    /\ Len(out) < MaxGenerate
    /\ LET gen == GenerateSlurmScript(fs, args.script, args.script_args, args.output_dir)
       IN  /\ fs' = gen.files
           /\ ret' = gen.ret
           /\ exc' = gen.exc
           /\ out' = out \o gen.out
           /\ pc' = IF gen.exc # NoneV THEN "done" ELSE "generate"
    /\ UNCHANGED <<entry, args, self, calls, err, exit_code>>

----------------------------------------------------------------------------
(* Specifications *)

Start(e, p, a, files, obj) ==
    /\ entry = e
    /\ pc = p
    /\ args = a
    /\ fs = files
    /\ self = obj
    /\ calls = <<>>
    /\ exc = NoneV
    /\ ret = NoneV
    /\ out = <<>>
    /\ err = <<>>
    /\ exit_code = -1

\* the command line: slurmssh --ssh <ssh> <script> [--exclude ...] [script_args ...]
Init ==
    \E ssh \in SshStrings, script \in ScriptPaths, script_exists \in BOOLEAN,
       exclude \in { <<>>, << <<"*.log">>, <<"data/">> >> },
       script_args \in SeqsUpTo(ExtraArgs, MaxArgs),
       manifest \in MainManifests, uv_lock \in BOOLEAN, writable \in BOOLEAN :
        Start("main", "main",
              Args(ssh, script, ListV(exclude), ListV(script_args), <<".">>),
              Files(script_exists, manifest, uv_lock, <<"work">>, writable),
              NoObject)

Next ==
    \/ main_parse
    \/ main_python_script
    \/ main_slurm_script
    \/ sync_mkdir
    \/ sync_rsync
    \/ submit_job
    \/ submit_except
    \/ main_except
    \/ main_return

Spec == Init /\ [][Next]_vars

\* a library caller: SlurmSSH(host, username, script).submit(exclude, script_args)
InitSubmit ==
    \E script \in { <<"job", ".slurm">>, <<"sub", "/", "job", ".slurm">> },
       exclude \in OptionalLists(Patterns, MaxExclude),
       script_args \in OptionalLists(ExtraArgs, MaxArgs) :
        LET files == Files(TRUE, Manifest("absent", NoConfig), FALSE, <<"work">>, TRUE)
        IN  Start("submit", "mkdir",
                  Args(<<"user", "@", "host">>, script, exclude, script_args, <<".">>),
                  files, SlurmSSH(files, <<"host">>, <<"user">>, script))

NextSubmit ==
    \/ sync_mkdir
    \/ sync_rsync
    \/ submit_job
    \/ submit_except

SpecSubmit == InitSubmit /\ [][NextSubmit]_vars

\* a library caller: SlurmSSH(host, username, script)._submit_job(script_args)
InitSubmitJob ==
    \E script_args \in { NoneL, ListV(<< <<"--epochs">>, <<"100">> >>) } :
        LET files == Files(TRUE, Manifest("absent", NoConfig), FALSE, <<"work">>, TRUE)
            script == <<"job", ".slurm">>
        IN  Start("_submit_job", "sbatch",
                  Args(<<"user", "@", "host">>, script, NoneL, script_args, <<".">>),
                  files, SlurmSSH(files, <<"host">>, <<"user">>, script))

NextSubmitJob == submit_job

SpecSubmitJob == InitSubmitJob /\ [][NextSubmitJob]_vars

\* a library caller: SlurmSSH(host, username, script), which resolves the name
InitProjectName ==
    \E script \in ScriptPaths, manifest \in Manifests, cwd \in Cwds :
        Start("_get_project_name", "get_project_name",
              Args(<<"user", "@", "host">>, script, NoneL, NoneL, <<".">>),
              Files(TRUE, manifest, FALSE, cwd, TRUE), NoObject)

NextProjectName == get_project_name

SpecProjectName == InitProjectName /\ [][NextProjectName]_vars

\* a library caller: _generate_slurm_script(script, script_args, output_dir), repeated
InitGenerate ==
    \E script \in { <<"train", ".py">>, <<"sub", "/", "train", ".py">> },
       script_args \in OptionalLists(ExtraArgs, MaxArgs),
       output_dir \in OutputDirs,
       manifest \in MainManifests, uv_lock \in BOOLEAN, writable \in BOOLEAN :
        LET files == Files(TRUE, manifest, uv_lock, <<"work">>, writable)
        IN  Start("_generate_slurm_script", "generate",
                  Args(<<"user", "@", "host">>, script, NoneL, script_args, output_dir),
                  files, SlurmSSH(files, <<"host">>, <<"user">>, script))

NextGenerate == generate_slurm_script

SpecGenerate == InitGenerate /\ [][NextGenerate]_vars

----------------------------------------------------------------------------
(* Properties *)

IsMkdir(c) == c.argv[1] = <<"ssh">> /\ SubSeq(c.argv[3], 1, 1) = <<"mkdir">>
IsRsync(c) == c.argv[1] = <<"rsync">>
IsSbatch(c) == c.argv[1] = <<"ssh">> /\ Contains(c.argv[3], <<"sbatch">>)

Spaced(texts) == Join(texts, <<" ">>)

\* the text without its leading and trailing whitespace, stated by position
Trimmed(t) ==
    LET solid == {i \in 1..Len(t) : t[i] \notin Whitespace}
    IN  IF solid = {} THEN <<>>
        ELSE SubSeq(t, CHOOSE i \in solid : \A j \in solid : i <= j,
                       CHOOSE i \in solid : \A j \in solid : j <= i)

\* tok is the last maximal run of non-whitespace of t
IsFinalToken(tok, t) ==
    \E i \in 1..Len(t), j \in 1..Len(t) :
        /\ i <= j
        /\ tok = SubSeq(t, i, j)
        /\ \A k \in i..j : t[k] \notin Whitespace
        /\ \A k \in (j + 1)..Len(t) : t[k] \in Whitespace
        /\ i = 1 \/ t[i - 1] \in Whitespace

\* C1: whenever the submission command is issued with a non-empty list of
\* extra arguments, its command string is
\* 'cd <remote_dir> && sbatch <extra args in caller order> <launch_script_path>'.
C1_ExtraArgsBeforeScript ==
    \A i \in 1..Len(calls) :
        (IsSbatch(calls[i]) /\ Truthy(args.script_args)) =>
            calls[i].argv[3] =
                Spaced(<< <<"cd">>, self.remote_dir, <<"&&">>, <<"sbatch">>,
                          Spaced(args.script_args.l), self.launch_script_path >>)

\* C2: the commands are issued in the order directory creation, mirroring,
\* submission; the mirroring only after the creation exited with 0, the
\* submission only after both exited with 0; a failed command is the last one.
C2_StepOrder ==
    \A i \in 1..Len(calls) :
        /\ IsMkdir(calls[i]) \/ IsRsync(calls[i]) \/ IsSbatch(calls[i])
        /\ IsMkdir(calls[i]) => i = 1
        /\ IsRsync(calls[i]) =>
                i = 2 /\ IsMkdir(calls[1]) /\ calls[1].returncode = 0
        /\ IsSbatch(calls[i]) =>
                /\ i = 3
                /\ IsMkdir(calls[1]) /\ calls[1].returncode = 0
                /\ IsRsync(calls[2]) /\ calls[2].returncode = 0
        /\ calls[i].returncode # 0 => i = Len(calls)

C2_Witness ==
    /\ pc = "exit"
    /\ Len(calls) = 3
    /\ IsMkdir(calls[1]) /\ IsRsync(calls[2]) /\ IsSbatch(calls[3])

\* C3: when the submission exits with 0 and its stdout contains the marker
\* phrase, _submit_job returns the final whitespace-delimited token of the
\* stdout, which is not empty and has no whitespace in it.
C3_JobIdIsFinalToken ==
    (/\ entry = "_submit_job" /\ pc = "done"
     /\ calls[1].returncode = 0
     /\ Contains(calls[1].stdout, Marker)) =>
        /\ exc = NoneV
        /\ ret.t = "str"
        /\ ret.s # <<>>
        /\ \A k \in 1..Len(ret.s) : ret.s[k] \notin Whitespace
        /\ IsFinalToken(ret.s, calls[1].stdout)

C3_Witness ==
    /\ entry = "_submit_job" /\ pc = "done"
    /\ calls[1].returncode = 0
    /\ calls[1].stdout = Acknowledgement
    /\ ret = StrV(<<"12345">>)

UnexpectedPrefix == <<"Unexpected", " ", "sbatch", " ", "output:", " ">>

\* C4 as stated: when the submission exits with 0 and its stdout lacks the
\* marker phrase, _submit_job returns nothing and raises an 'unexpected
\* output' error whose message includes the raw stdout.
C4_MessageHasRawStdout ==
    (/\ entry = "_submit_job" /\ pc = "done"
     /\ calls[1].returncode = 0
     /\ ~Contains(calls[1].stdout, Marker)) =>
        /\ ret = NoneV
        /\ exc.t = "RuntimeError"
        /\ SubSeq(exc.s, 1, Len(UnexpectedPrefix)) = UnexpectedPrefix
        /\ Contains(exc.s, calls[1].stdout)

\* C4 as amended: ... an 'unexpected output' error whose message is the
\* prefix followed by the stdout with its leading and trailing whitespace
\* removed; no identifier is returned or announced.
C4_MessageHasTrimmedStdout ==
    (/\ entry = "_submit_job" /\ pc = "done"
     /\ calls[1].returncode = 0
     /\ ~Contains(calls[1].stdout, Marker)) =>
        /\ ret = NoneV
        /\ out = <<>>
        /\ exc = RuntimeError(UnexpectedPrefix \o Trimmed(calls[1].stdout))

C4_Witness ==
    /\ entry = "_submit_job" /\ pc = "done"
    /\ calls[1].returncode = 0
    /\ calls[1].stdout = <<"\n", "job", " ", "12345", "\n">>
    /\ exc = RuntimeError(UnexpectedPrefix \o <<"job", " ", "12345">>)

\* C5: when the submission exits with a non-zero code, _submit_job raises a
\* 'failed to submit job' error whose message contains the stderr text and
\* returns no identifier, whatever the stdout is.
C5_FailedSubmission ==
    (/\ entry = "_submit_job" /\ pc = "done"
     /\ calls[1].returncode # 0) =>
        /\ ret = NoneV
        /\ out = <<>>
        /\ exc.t = "RuntimeError"
        /\ exc.s = <<"Failed", " ", "to", " ", "submit", " ", "job:", " ">>
                        \o calls[1].stderr

C5_Witness ==
    /\ entry = "_submit_job" /\ pc = "done"
    /\ calls[1].returncode = 1
    /\ calls[1].stdout = Acknowledgement
    /\ calls[1].stderr = <<"sbatch: error: Invalid partition name">>
    /\ Contains(exc.s, calls[1].stderr)

Baseline ==
    << <<".git/">>, <<"__pycache__/">>, <<"*.pyc">>, <<".DS_Store">>,
       <<".vscode/">>, <<".idea/">>, <<".venv/">> >>

\* C6: the mirroring command carries, after its three options, one
\* '--exclude <pattern>' pair per pattern: the 7 baseline patterns, then the
\* caller's patterns in caller order, nothing dropped; then source and target.
C6_ExclusionSequence ==
    \A i \in 1..Len(calls) :
        IsRsync(calls[i]) =>
            LET argv == calls[i].argv
                patterns == Baseline \o (IF args.exclude.t = "None" THEN <<>>
                                         ELSE args.exclude.l)
                n == Len(patterns)
            IN  /\ Len(Baseline) = 7
                /\ Len(argv) = 3 + 2 * n + 2
                /\ SubSeq(argv, 1, 3) = << <<"rsync">>, <<"-avz">>, <<"--delete">> >>
                /\ \A k \in 1..n :
                        /\ argv[3 + 2 * k - 1] = <<"--exclude">>
                        /\ argv[3 + 2 * k] = patterns[k]
                /\ argv[Len(argv) - 1] = <<"./">>

C6_Witness ==
    /\ Len(calls) >= 2
    /\ IsRsync(calls[2])
    /\ args.exclude = ListV(<< <<"*.log">>, <<".git/">> >>)
    /\ Len(calls[2].argv) = 23

StepError(c) ==
    IF IsMkdir(c) /\ c.returncode # 0
    THEN RuntimeError(<<"Failed", " ", "to", " ", "create", " ", "remote", " ",
                        "directory:", " ">> \o c.stderr)
    ELSE IF IsRsync(c) /\ c.returncode # 0
    THEN RuntimeError(<<"Failed", " ", "to", " ", "sync", " ", "code:", " ">> \o c.stderr)
    ELSE IF IsSbatch(c) /\ c.returncode # 0
    THEN RuntimeError(<<"Failed", " ", "to", " ", "submit", " ", "job:", " ">> \o c.stderr)
    ELSE IF IsSbatch(c) /\ ~Contains(c.stdout, Marker)
    THEN RuntimeError(UnexpectedPrefix \o Trimmed(c.stdout))
    ELSE NoneV

\* C8: a failed step's error reaches the caller of submit() unchanged; main()
\* then prints 'Error: <message>' to the error stream and exits with a
\* non-zero status; it exits with 0 only when the three commands exited with
\* 0 and the acknowledgement was parsed.
C8_FailurePropagates ==
    /\ (pc \in {"main_except", "exit", "done"} /\ calls # <<>>
            /\ StepError(calls[Len(calls)]) # NoneV) =>
            exc = StepError(calls[Len(calls)])
    /\ (entry = "main" /\ pc = "exit" /\ calls # <<>>
            /\ StepError(calls[Len(calls)]) # NoneV) =>
            /\ exit_code \notin {0, -1}
            /\ err = << <<"Error:", " ">> \o StepError(calls[Len(calls)]).s >>
    /\ (entry = "main" /\ pc = "exit" /\ exit_code = 0) =>
            /\ Len(calls) = 3
            /\ \A i \in 1..3 : calls[i].returncode = 0
            /\ IsSbatch(calls[3]) /\ Contains(calls[3].stdout, Marker)
            /\ \E id \in SeqsUpTo(StdoutLexemes, 2) :
                    id # <<>> /\
                    out[Len(out)] = <<"Job", " ", "submitted", " ", "with", " ", "ID:", " ">>
                                        \o id
            /\ err = <<>>

C8_Witness ==
    /\ entry = "main" /\ pc = "exit"
    /\ exit_code = 1
    /\ Len(calls) = 2
    /\ calls[2].returncode = 1
    /\ calls[2].stderr # <<>>
    /\ err = << <<"Error:", " ", "Failed", " ", "to", " ", "sync", " ", "code:", " ">>
                    \o calls[2].stderr >>

\* C9: project name resolution never raises and always returns a non-empty
\* string.
C9_NameIsNonEmptyString ==
    (entry = "_get_project_name" /\ pc = "done") =>
        /\ exc = NoneV
        /\ ret.t = "str"
        /\ ret.s # <<>>

\* C10: generating a batch script again with the same inputs and unchanged
\* project files returns the same path '<output_dir>/<stem>.slurm' and leaves
\* the same file content, whose command line is the interpreter prefix, the
\* script path and the arguments in order, joined by single spaces.
C10_GenerateIdempotent ==
    /\ []((entry = "_generate_slurm_script" /\ ret.t = "str") =>
            /\ ret.s = (IF args.output_dir = <<".">> THEN <<>> ELSE <<"out", "/">>)
                            \o <<"train", ".slurm">>
            /\ DOMAIN fs.written = {ret.s}
            /\ \E prefix \in { <<"python">>, <<"uv", " ", "run">> } :
                    Contains(fs.written[ret.s],
                             <<"\n">>
                             \o Spaced(<<prefix, args.script>>
                                        \o (IF args.script_args.t = "None" THEN <<>>
                                            ELSE args.script_args.l))
                             \o <<"\n">>))
    /\ [][(/\ entry = "_generate_slurm_script"
           /\ Len(out) >= 1
           /\ Len(out') = Len(out) + 1) =>
                /\ ret' = ret
                /\ fs'.written = fs.written
                /\ out'[Len(out')] = out[Len(out)]]_vars

C10_Witness ==
    /\ entry = "_generate_slurm_script"
    /\ Len(out) = 2
    /\ args.script = <<"train", ".py">>
    /\ args.script_args = ListV(<< <<"--epochs">>, <<"100">> >>)
    /\ ret = StrV(<<"train", ".slurm">>)
    /\ Contains(fs.written[<<"train", ".slurm">>],
                <<"train", ".py", " ", "--epochs", " ", "100", "\n">>)

\* C11: whenever main() has issued a remote command, the username and the
\* host are both non-empty, every ssh invocation addresses 'username@host' and
\* the mirroring destination is 'username@host:<remote_dir>'.
C11_TargetNonEmpty ==
    (entry = "main" /\ calls # <<>>) =>
        /\ self.username # <<>>
        /\ self.host # <<>>
        /\ \A i \in 1..Len(calls) :
            LET argv == calls[i].argv
            IN  /\ argv[1] = <<"ssh">> =>
                    argv[2] = self.username \o <<"@">> \o self.host
                /\ argv[1] = <<"rsync">> =>
                    argv[Len(argv)] = self.username \o <<"@">> \o self.host
                                        \o <<":">> \o self.remote_dir

\* C12: no step is retried: a run issues each of the three commands at most
\* once, at most three commands in all and at most one submission, whatever
\* the exit codes.
C12_NoRetry ==
    /\ Len(calls) <= 3
    /\ Cardinality({i \in 1..Len(calls) : IsMkdir(calls[i])}) <= 1
    /\ Cardinality({i \in 1..Len(calls) : IsRsync(calls[i])}) <= 1
    /\ Cardinality({i \in 1..Len(calls) : IsSbatch(calls[i])}) <= 1
    /\ \A i \in 1..Len(calls), j \in 1..Len(calls) :
            calls[i].argv = calls[j].argv => i = j

C12_Witness ==
    /\ entry = "main" /\ pc = "exit"
    /\ exit_code = 1
    /\ Len(calls) = 3
    /\ IsSbatch(calls[3])
    /\ calls[3].returncode = 1

\* the manifest exists, parses and has a name in its project table
DeclaresName(m) ==
    /\ m.state = "parsed"
    /\ "project" \in DOMAIN m.config
    /\ m.config["project"].t = "table"
    /\ "name" \in DOMAIN m.config["project"].d

\* the directory part of a script path as written: the text before its last
\* separator (the separator itself for a file in the root directory), or
\* nothing when the path has no separator
WrittenParent(script) ==
    LET slashes == {i \in 1..Len(script) : script[i] = "/"}
        last == CHOOSE i \in slashes : \A j \in slashes : j <= i
    IN  IF slashes = {} THEN <<>>
        ELSE IF last = 1 THEN <<"/">>
        ELSE SubSeq(script, 1, last - 1)

\* the last component of a directory as written, empty for the root
WrittenBaseName(dir) ==
    LET slashes == {i \in 1..Len(dir) : dir[i] = "/"}
        last == CHOOSE i \in slashes : \A j \in slashes : j <= i
    IN  IF slashes = {} THEN dir ELSE SubSeq(dir, last + 1, Len(dir))

\* C13: the project name is the manifest's declared name when the manifest
\* exists, parses and declares one, whatever the launch script path; otherwise
\* the base name of the launch script's parent when that parent is not the
\* current directory; otherwise the base name of the working directory.  The
\* remote directory is '~/slurmssh/<project_name>/'.
C13_NamePriority ==
    (entry = "_get_project_name" /\ pc = "done") =>
        LET m == fs.manifest
            parent == WrittenParent(args.script)
        IN  /\ ret = (IF DeclaresName(m) THEN m.config["project"].d["name"]
                      ELSE IF parent \notin {<<>>, <<".">>}
                           THEN [t |-> "str", s |-> WrittenBaseName(parent)]
                           ELSE [t |-> "str", s |-> fs.cwd])
            /\ self.project_name = ret
            /\ self.remote_dir = <<"~/slurmssh/">> \o ret.s \o <<"/">>

C13_Witness ==
    /\ entry = "_get_project_name" /\ pc = "done"
    /\ args.script = <<"sub", "/", "job", ".slurm">>
    /\ DeclaresName(fs.manifest)
    /\ ret = [t |-> "str", s |-> <<"proj">>]
    /\ self.remote_dir = <<"~/slurmssh/", "proj", "/">>

====
